---- MODULE Spec2Model ----
(***************************************************************************)
(* A model of lib/module_manager.js (Breach): the per-session module       *)
(* manager.  It covers the message dispatcher (dispatch, core_call,        *)
(* core_emit, core_expose), the module lifecycle (run_module, kill_module, *)
(* kill, the 'exit' and 'message' listeners of a forked child, the 5 s     *)
(* force-kill timer), the registry (add, remove, list) and the paths       *)
(* (expand_path, augment_path).                                            *)
(*                                                                         *)
(* One step of the model is one turn of the supervisor's event loop: a     *)
(* call of the host into the public interface, or one callback (a db.find  *)
(* result, an install result, a child's 'message' or 'exit' event, a       *)
(* timer, a process.nextTick callback, the completion of an exposed        *)
(* procedure).  An exception that escapes a turn is recorded in `thrown`;  *)
(* the assignments made before the throw stay, the rest of the turn is     *)
(* skipped.                                                                *)
(***************************************************************************)
EXTENDS Integers, Sequences, FiniteSets, Bags, TLC

(***************************************************************************)
(* Bounds of the model.                                                    *)
(***************************************************************************)
\* live child processes at any one time
MaxProcs == 2
\* run_module and kill_module calls waiting for db.find or install
MaxCalls == 1
\* kill() calls in flight
MaxKills == 1
\* cap of my.core_module.message_id
MaxMid == 2
\* registrations held by one running module
MaxRegs == 2
\* the message ids a child picks for what it sends
MaxChildMid == 1
\* add and remove calls in flight
MaxAdds == 2
\* tags in the listing of a repository
MaxTags == 2

(***************************************************************************)
(* The universe: module records of the session's database, names, paths.   *)
(***************************************************************************)
core_name == "core"

Names == {"alpha", "beta"}

Records ==
  { [path |-> "local:/a", name |-> "alpha", version |-> "1.0.0",
     active |-> TRUE],
    [path |-> "local:/b", name |-> "beta", version |-> "1.0.0",
     active |-> TRUE] }

\* what the host passes as `path`: the registered paths, an unknown path,
\* and (as kill() does) module names
Paths == {r.path : r \in Records}
UnknownPath == "local:/x"

KillIds == 1..MaxKills
\* the parent of a kill_module call made by the host, not by kill()
NoKill == 0
\* the message id of a call that sent no `kill` rpc_call
NoMid == 0

\* the value of a property that was never set
Undefined == "undefined"
\* a value for which `typeof x !== 'string'`
NotAString == "<not-a-string>"
\* a value for which `typeof x !== 'number'`
NotANumber == -1
NoOid == -2

NoErr == [msg |-> "", nme |-> ""]
NoRes == ""
Result == "res"
HandlerErr == [msg |-> "failed", nme |-> "handler_error"]
\* NotFoundErr without its name
UnnamedErr == [msg |-> "Procedure not found", nme |-> ""]
NotFoundErr == [msg |-> "Procedure not found", nme |-> "procedure_not_found"]

(***************************************************************************)
(* Regular expressions.  A pattern is compiled with new RegExp(p) and      *)
(* applied with RegExp.test(s), an unanchored search.  The patterns and    *)
(* strings of the model are few, so the match relation is a table.         *)
(***************************************************************************)
BadPattern == "("
Patterns == {".*", "a", "beta", "^core$", "state:.*"}
EventTypes == {"state:change", "tick"}
MatchedStrings == Names \cup {core_name} \cup EventTypes \cup {"internal:ready"}

Compiles(p) == p # BadPattern

Matches(p, s) ==
  CASE p = ".*"       -> TRUE
    [] p = "a"        -> s \in {"alpha", "beta", "state:change", "internal:ready"}
    [] p = "beta"     -> s = "beta"
    [] p = "^core$"   -> s = "core"
    [] p = "state:.*" -> s = "state:change"
    [] OTHER          -> FALSE

(***************************************************************************)
(* Message envelopes.  One record shape for the five kinds; a field a      *)
(* message does not carry holds its "absent" value.                        *)
(*   typ, mid, src : msg.hdr.typ, msg.hdr.mid, msg.hdr.src                 *)
(*   dst, prc, oid, err, res : the rpc fields                              *)
(*   esrc, etyp : msg.src and msg.typ (patterns of a register, type of an  *)
(*                event)                                                   *)
(*   rid : msg.rid of an unregister                                        *)
(***************************************************************************)
Msg(typ, mid, src) ==
  [typ |-> typ, mid |-> mid, src |-> src, dst |-> "", prc |-> "",
   oid |-> NoOid, err |-> NoErr, res |-> NoRes, esrc |-> "", etyp |-> "",
   rid |-> NotANumber]

RpcCall(mid, src, dst, prc) ==
  [Msg("rpc_call", mid, src) EXCEPT !.dst = dst, !.prc = prc]

RpcReply(mid, src, dst, oid, err, res) ==
  [Msg("rpc_reply", mid, src) EXCEPT
     !.dst = dst, !.oid = oid, !.err = err, !.res = res]

Event(mid, src, etyp) == [Msg("event", mid, src) EXCEPT !.etyp = etyp]

Register(mid, src, esrc, etyp) ==
  [Msg("register", mid, src) EXCEPT !.esrc = esrc, !.etyp = etyp]

Unregister(mid, src, rid) == [Msg("unregister", mid, src) EXCEPT !.rid = rid]

(***************************************************************************)
(* Child processes.  A handle returned by child_process.fork is held by at *)
(* most one entry (of my.running_modules or my.shutdown_modules), so the   *)
(* model keeps the process where its handle is: in the entry's `process`   *)
(* field.  A live child whose handle no entry holds any more is a stray,   *)
(* kept in the bag `strays`.  A process record holds what the supervisor   *)
(* attached to the handle:                                                 *)
(*   exit    : "restart" (the listener of run_module), "kill" (the one of  *)
(*             kill_module) or "none"                                      *)
(*   name, path : module.name and path in the closures of the listeners    *)
(*   cb      : the kill_module call whose callback the "kill" listener     *)
(*             holds: its argument, the kill() that made it, and the id of *)
(*             the `kill` rpc_call it sent, which names the call           *)
(*   message : whether the 'message' listener of run_module is attached    *)
(*   signalled : process.kill() was called on it                           *)
(* NoProcess is the value of an entry's `process` after `delete`.          *)
(***************************************************************************)
NoCb == [arg |-> "", parent |-> NoKill, mid |-> NoMid]

NoProcess ==
  [alive |-> FALSE, name |-> "", path |-> "", exit |-> "none",
   message |-> FALSE, signalled |-> FALSE, cb |-> NoCb]

Forked(name, path) ==
  [alive |-> TRUE, name |-> name, path |-> path, exit |-> "restart",
   message |-> TRUE, signalled |-> FALSE, cb |-> NoCb]

\* p.removeAllListeners()
Stripped(p) == [p EXCEPT !.exit = "none", !.message = FALSE, !.cb = NoCb]

(***************************************************************************)
(* my.running_modules: an object keyed by module name.  `for(name in ...)` *)
(* walks the keys in insertion order, so the model keeps the entries as a  *)
(* sequence in that order.  my.shutdown_modules is never iterated: a       *)
(* function from names to entries.                                         *)
(***************************************************************************)
NewEntry(name, path) ==
  [name |-> name, path |-> path, restart |-> 0, process |-> NoProcess,
   registrations |-> <<>>]

Keys(rm) == {rm[i].name : i \in DOMAIN rm}
Has(rm, name) == name \in Keys(rm)
IndexOf(rm, name) == CHOOSE i \in DOMAIN rm : rm[i].name = name
Get(rm, name) == rm[IndexOf(rm, name)]
Delete(rm, name) == SelectSeq(rm, LAMBDA e : e.name # name)

EmptyMap == [n \in {} |-> n]
DeleteKey(f, k) == [n \in DOMAIN f \ {k} |-> f[n]]
PutKey(f, k, v) == [n \in DOMAIN f \cup {k} |-> IF n = k THEN v ELSE f[n]]

(***************************************************************************)
(* State.                                                                  *)
(***************************************************************************)
VARIABLES
  db,                \* my.db: the module records of the session
  adds,              \* add and remove calls waiting for a callback
  augmented,         \* what augment_path was given and gave in the last step
  running_modules,   \* my.running_modules
  shutdown_modules,  \* my.shutdown_modules
  message_id,        \* my.core_module.message_id
  rpc_calls,         \* my.core_module.rpc_calls: key -> continuation
  procedures,        \* my.core_module.procedures: the exposed names
  handlers,          \* exposed procedures called and not yet completed
  ticks,             \* callbacks queued with process.nextTick
  strays,            \* live children whose handle no entry holds
  runs,              \* run_module calls waiting for db.find or install
  calls,             \* kill_module calls waiting for db.find
  kills,             \* kill() calls in flight
  timers,            \* armed setTimeout callbacks of kill_module
  sent,              \* process.send calls of the last step, in order
  thrown,            \* the exception that escaped the last step, or ""
  offered,           \* messages handed to dispatch in the last step
  heard,             \* what a child sent in the last step, and whose child
  dispatched,        \* messages that passed dispatch's gate in the last step
  done,              \* completion callbacks invoked in the last step
  fired,             \* core_call continuations invoked so far, with counts
  handled,           \* core replies that found a pending entry: oid, call
  listed,            \* the result list() gave in the last step
  exited             \* the child whose 'exit' event the last step handled

vars == <<db, adds, augmented, running_modules, shutdown_modules, message_id, rpc_calls,
          procedures, handlers, ticks, strays, runs, calls, kills, timers,
          sent, thrown, offered, heard,
          dispatched, done, fired, handled, listed, exited>>

(***************************************************************************)
(* The dispatcher works on a record of the state it reads and writes, so   *)
(* that the handlers which call it can go on after it returns.             *)
(*   rm, mid, rpc, procedures, hcalls, tickq : the program's state         *)
(*   sent, thrown, dispatched, fired, handled : the observations           *)
(***************************************************************************)
Snapshot ==
  [rm |-> running_modules, mid |-> message_id, rpc |-> rpc_calls,
   procedures |-> procedures, hcalls |-> handlers, tickq |-> ticks,
   sent |-> <<>>, thrown |-> "", offered |-> <<>>, dispatched |-> <<>>,
   heard |-> <<>>, fired |-> fired, handled |-> handled]

Throw(st, e) == [st EXCEPT !.thrown = e]

\* my.running_modules[name].process.send(msg); `undefined.send` is a
\* TypeError
Send(st, name, msg) ==
  IF ~Get(st.rm, name).process.alive THEN Throw(st, "TypeError")
  ELSE [st EXCEPT !.sent = Append(@, [to |-> name, msg |-> msg])]

\* Accepted without the test of msg.hdr.mid
AcceptedAnyMid(rm, msg) ==
  /\ msg.typ # NotAString
  /\ msg.src # NotAString
  /\ (Has(rm, msg.src) \/ msg.src = core_name)

\* the validation gate of dispatch
Accepted(rm, msg) ==
  /\ msg.typ # NotAString
  /\ msg.mid # NotANumber
  /\ msg.src # NotAString
  /\ (Has(rm, msg.src) \/ msg.src = core_name)

\* Delivers without the test `msg.hdr.src !== name`
DeliversToSelf(r, msg, name) ==
  /\ Matches(r.source, msg.src)
  /\ Matches(r.type, msg.etyp)

\* the test applied to registration r of the running module `name`
Delivers(r, msg, name) ==
  /\ Matches(r.source, msg.src)
  /\ Matches(r.type, msg.etyp)
  /\ msg.src # name

\* the modules an event is sent to, one per matching registration, in the
\* order of the scan (entries in key order, registrations in order)
RECURSIVE EventTargets(_, _, _)
EventTargets(rm, msg, i) ==
  IF i > Len(rm) THEN <<>>
  ELSE LET e == rm[i]
           hits == SelectSeq(e.registrations,
                             LAMBDA r : Delivers(r, msg, e.name))
       IN [k \in 1..Len(hits) |-> e.name] \o EventTargets(rm, msg, i + 1)

\* the sends of the scan: it ends at the first handle that is undefined
RECURSIVE SendAll(_, _, _)
SendAll(st, targets, msg) ==
  IF targets = <<>> \/ st.thrown # "" THEN st
  ELSE SendAll(Send(st, Head(targets), msg), Tail(targets), msg)

\* Reply without `msg.dst = msg.hdr.src`
ReplyToCore(msg, mid) ==
  [msg EXCEPT !.oid = msg.mid, !.mid = mid, !.typ = "rpc_reply",
              !.src = core_name]

\* an rpc_call addressed to core is turned, in place, into its rpc_reply;
\* `mid` is ++my.core_module.message_id
Reply(msg, mid) ==
  [msg EXCEPT !.oid = msg.mid, !.mid = mid, !.typ = "rpc_reply",
              !.dst = msg.src, !.src = core_name]

\* Unregistered leaving the loop after its first splice
UnregisteredLast(registrations, rid) ==
  LET found == {i \in DOMAIN registrations :
                  registrations[i].registration_id = rid}
  IN IF found = {} THEN registrations
     ELSE LET k == CHOOSE i \in found : \A j \in found : j <= i
          IN SubSeq(registrations, 1, k - 1)
               \o SubSeq(registrations, k + 1, Len(registrations))

\* the loop of unregister: every registration whose registration_id is
\* msg.rid is spliced out
Unregistered(registrations, rid) ==
  SelectSeq(registrations, LAMBDA r : r.registration_id # rid)

RECURSIVE dispatch(_, _, _)

\* NextTick calling dispatch(msg) at once
NextTickSync(st, msg) == dispatch(st, msg, "later")

\* process.nextTick(function() { dispatch(msg) })
NextTick(st, msg) == [st EXCEPT !.tickq = Append(@, msg)]

\* common.err(msg, name): the error handed to a continuation
common_err(msg, name) == [msg |-> msg, name |-> name]

\* `my.core_moodule` names no property of `my`
core_moodule == Undefined

\* the continuation stored under key k is called with (err, res)
Invoke(st, k, err, res) ==
  LET c == st.rpc[k]
      n == IF c \in DOMAIN st.fired THEN st.fired[c] ELSE 0
  IN [st EXCEPT !.fired = PutKey(@, c, n + 1)]

(***************************************************************************)
(* dispatch(msg).  `h` says what the exposed procedure does when it is     *)
(* called: "ok" and "err" call back before returning, "later" keeps the    *)
(* callback for a later turn.                                              *)
(***************************************************************************)
dispatch(st, msg, h) ==
  IF ~Accepted(st.rm, msg) THEN [st EXCEPT !.offered = Append(@, msg)]
  ELSE
  LET s0 == [st EXCEPT !.offered = Append(@, msg),
                       !.dispatched = Append(@, msg)] IN
  CASE msg.typ = "register" ->
         IF msg.esrc # NotAString /\ msg.etyp # NotAString
         THEN IF ~Has(s0.rm, msg.src)
              THEN Throw(s0, "TypeError")
              ELSE IF ~Compiles(msg.esrc) \/ ~Compiles(msg.etyp)
              THEN Throw(s0, "SyntaxError")
              ELSE LET i == IndexOf(s0.rm, msg.src) IN
                   [s0 EXCEPT !.rm[i].registrations =
                      Append(@, [source |-> msg.esrc, type |-> msg.etyp,
                                 registration_id |-> msg.mid])]
         ELSE s0
    [] msg.typ = "unregister" ->
         IF msg.rid # NotANumber
         THEN IF ~Has(s0.rm, msg.src) THEN Throw(s0, "TypeError") ELSE
              LET i == IndexOf(s0.rm, msg.src) IN
              [s0 EXCEPT !.rm[i].registrations = Unregistered(@, msg.rid)]
         ELSE s0
    [] msg.typ = "event" ->
         SendAll(s0, EventTargets(s0.rm, msg, 1), msg)
    [] msg.typ = "rpc_call" ->
         IF Has(s0.rm, msg.dst) /\
            (Has(s0.rm, msg.src) \/ msg.src = core_name)
         THEN Send(s0, msg.dst, msg)
         ELSE IF msg.dst = core_name
         THEN LET reply == Reply(msg, s0.mid + 1)
                  s1 == [s0 EXCEPT !.mid = @ + 1]
              IN IF msg.prc \in s1.procedures
                 THEN CASE h = "ok"  -> NextTick(s1, [reply EXCEPT !.res = Result])
                        [] h = "err" -> NextTick(s1, [reply EXCEPT !.err = HandlerErr])
                        [] OTHER     -> [s1 EXCEPT !.hcalls = @ \cup {reply}]
                 ELSE NextTick(s1, [reply EXCEPT !.err = NotFoundErr])
         ELSE s0
    [] msg.typ = "rpc_reply" ->
         IF Has(s0.rm, msg.dst) /\ Get(s0.rm, msg.dst).process.alive
         THEN Send(s0, msg.dst, msg)
         ELSE IF msg.dst = core_name
         THEN LET err == IF msg.err # NoErr
                         THEN common_err(msg.err.msg, Undefined)
                         ELSE common_err("", "")
              IN IF msg.oid \in DOMAIN s0.rpc
                 THEN LET s1 == [s0 EXCEPT !.handled = @ \cup
                                     {[oid |-> msg.oid, call |-> s0.rpc[msg.oid]]}]
                      IN
                      IF core_moodule = Undefined
                      THEN Throw(s1, "TypeError")
                      ELSE [Invoke(s1, msg.oid, err, msg.res) EXCEPT
                              !.rpc = DeleteKey(@, msg.oid)]
                 ELSE s0
         ELSE s0
    [] OTHER -> s0


(***************************************************************************)
(* Calls in flight.  Each is the chain of callbacks of one async.series or *)
(* async.each:                                                             *)
(*   run_module  : stage "find" (db.find pending), "install" (install      *)
(*                 pending); `internal` when called by the exit listener,  *)
(*                 whose callback does nothing                             *)
(*   kill_module : waiting for db.find, with its argument and the kill()   *)
(*                 that made it; once it has sent the `kill` rpc_call its  *)
(*                 callback lives in the "kill" listener of the process    *)
(*   kill        : `n` calls of kill_module, `completed` of them answered  *)
(*                 without error, `called` once the final callback ran     *)
(* Nothing refers to a run_module or kill_module call that waits for       *)
(* db.find or install, so `runs` and `calls` are bags.                     *)
(***************************************************************************)
Run(stage, path, name, internal) ==
  [stage |-> stage, arg |-> path, name |-> name, internal |-> internal]

Call(arg, parent) == [arg |-> arg, parent |-> parent]

One(x) == SetToBag({x})
StartRun(path, internal) == runs (+) One(Run("find", path, "", internal))
InFlight == BagCardinality(runs) + BagCardinality(calls)

NoKillCall ==
  [active |-> FALSE, n |-> 0, completed |-> 0, called |-> FALSE, targets |-> {}]

Completion(kind, arg, name, err, mid, parent, targets) ==
  [kind |-> kind, arg |-> arg, name |-> name, err |-> err, mid |-> mid,
   parent |-> parent, targets |-> targets]

RunCompletion(r, err) ==
  IF r.internal THEN {}
  ELSE {Completion("run_module", r.arg, r.name, err, NoMid, NoKill, {})}

\* the live children, each with the place that holds its handle
Locs ==
  {[at |-> "running", proc |-> running_modules[i].process] :
     i \in {j \in DOMAIN running_modules : running_modules[j].process.alive}}
  \cup {[at |-> "shutdown", proc |-> shutdown_modules[n].process] :
          n \in DOMAIN shutdown_modules}
  \cup {[at |-> "stray", proc |-> p] : p \in BagToSet(strays)}

LiveCount ==
  Cardinality({j \in DOMAIN running_modules : running_modules[j].process.alive})
  + Cardinality(DOMAIN shutdown_modules) + BagCardinality(strays)

HasFreeProc == LiveCount < MaxProcs

\* whether a kill_module call made by kill() number k still holds its callback
HasChildren(k, cs, sh, ss) ==
  \/ \E c \in BagToSet(cs) : c.parent = k
  \/ \E n \in DOMAIN sh : sh[n].process.cb.parent = k
  \/ \E p \in BagToSet(ss) : p.cb.parent = k

\* a kill() whose calls of kill_module are all gone holds nothing any more
Released(ks, cs, sh, ss) ==
  [k \in KillIds |-> IF HasChildren(k, cs, sh, ss) THEN ks[k] ELSE NoKillCall]

\* the iterator callback of async.each in kill() number k, called with `err`
EachCallback(ks, k, err) ==
  LET par == ks[k] IN
  IF err # ""
  THEN [kills |-> [ks EXCEPT ![k].called = TRUE],
        done  |-> IF par.called THEN {}
                  ELSE {Completion("kill", "", "", err, NoMid, k, par.targets)}]
  ELSE [kills |-> [ks EXCEPT ![k].completed = @ + 1,
                             ![k].called = @ \/ par.completed + 1 >= par.n],
        done  |-> IF ~par.called /\ par.completed + 1 >= par.n
                  THEN {Completion("kill", "", "", "", NoMid, k, par.targets)}
                  ELSE {}]

\* the callback of a kill_module call is invoked with `err`
Finish(ks, cb, name, err) ==
  LET me == {Completion("kill_module", cb.arg, name, err, cb.mid, cb.parent, {})}
  IN IF cb.parent = NoKill THEN [kills |-> ks, done |-> me]
     ELSE LET r == EachCallback(ks, cb.parent, err)
          IN [kills |-> r.kills, done |-> me \cup r.done]

(***************************************************************************)
(* Init: the state after construction and init(), with the records of the  *)
(* session loaded in my.db.                                                *)
(***************************************************************************)
Constructed ==
  /\ adds = EmptyBag
  /\ augmented = <<>>
  /\ running_modules = <<>>
  /\ shutdown_modules = EmptyMap
  /\ message_id = 0
  /\ rpc_calls = EmptyMap
  /\ procedures = {}
  /\ handlers = {}
  /\ ticks = <<>>
  /\ strays = EmptyBag
  /\ runs = EmptyBag
  /\ calls = EmptyBag
  /\ kills = [k \in KillIds |-> NoKillCall]
  /\ timers = {}
  /\ sent = <<>>
  /\ thrown = ""
  /\ offered = <<>>
  /\ heard = <<>>
  /\ dispatched = <<>>
  /\ done = {}
  /\ fired = EmptyMap
  /\ handled = {}
  /\ listed = {}
  /\ exited = {}

Init ==
  /\ db = Records
  /\ Constructed

\* the state a dispatcher record leaves behind
Commit(st) ==
  /\ running_modules' = st.rm
  /\ message_id' = st.mid
  /\ rpc_calls' = st.rpc
  /\ handlers' = st.hcalls
  /\ ticks' = st.tickq
  /\ sent' = st.sent
  /\ thrown' = st.thrown
  /\ offered' = st.offered
  /\ heard' = st.heard
  /\ dispatched' = st.dispatched
  /\ fired' = st.fired
  /\ handled' = st.handled

\* what a step that does not call dispatch leaves of the dispatcher's state
Quiet ==
  /\ sent' = <<>>
  /\ dispatched' = <<>> /\ offered' = <<>> /\ heard' = <<>>
  /\ UNCHANGED <<message_id, rpc_calls, handlers, ticks, fired, handled>>

\* callbacks of I/O run when the nextTick queue is empty
Turn == ticks = <<>>

HandlerModes == {"ok", "err", "later"}

(***************************************************************************)
(* run_module(path, cb_)                                                   *)
(***************************************************************************)
\* the call: async.series starts db.find({ path: path })
run_module(path) ==
  /\ InFlight < MaxCalls
  /\ runs' = StartRun(path, FALSE)
  /\ done' = {} /\ thrown' = "" /\ listed' = {} /\ exited' = {}
  /\ Quiet
  /\ UNCHANGED <<db, adds, augmented, running_modules, shutdown_modules, procedures, strays,
                 calls, kills, timers>>

\* the callback of db.find: module_unknown, or on to install(path)
run_module_find(r) ==
  /\ Turn
  /\ r \in BagToSet(runs) /\ r.stage = "find"
  /\ LET modules == {m \in db : m.path = r.arg} IN
     IF modules = {}
     THEN /\ runs' = runs (-) One(r)
          /\ done' = RunCompletion(r, "module_unknown")
     ELSE /\ runs' = (runs (-) One(r)) (+)
                     One(Run("install", r.arg,
                             (CHOOSE m \in modules : TRUE).name, r.internal))
          /\ done' = {}
  /\ thrown' = "" /\ listed' = {} /\ exited' = {}
  /\ Quiet
  /\ UNCHANGED <<db, adds, augmented, running_modules, shutdown_modules, procedures, strays,
                 calls, kills, timers>>

\* my.running_modules after the last step of run_module: the entry of
\* `name`, kept if there is one, holds the handle of the forked process
RunEntry(rm, name, path) ==
  LET rm1 == IF Has(rm, name) THEN rm ELSE Append(rm, NewEntry(name, path))
  IN [rm1 EXCEPT ![IndexOf(rm1, name)].process = Forked(name, path)]

\* the child whose handle the entry of `name` held before
Replaced(rm, name) ==
  IF Has(rm, name) /\ Get(rm, name).process.alive
  THEN One(Get(rm, name).process) ELSE EmptyBag

\* the callback of install: its error, or the last step of the series,
\* which forks the child and attaches the 'exit' and 'message' listeners
run_module_install(r, ok) ==
  /\ Turn
  /\ r \in BagToSet(runs) /\ r.stage = "install"
  /\ IF ~ok
     THEN /\ done' = RunCompletion(r, "install_failed")
          /\ UNCHANGED <<running_modules, strays>>
     ELSE /\ HasFreeProc
          /\ running_modules' = RunEntry(running_modules, r.name, r.arg)
          /\ strays' = strays (+) Replaced(running_modules, r.name)
          /\ done' = RunCompletion(r, "")
  /\ runs' = runs (-) One(r)
  /\ sent' = <<>> /\ thrown' = "" /\ dispatched' = <<>>
  /\ offered' = <<>> /\ heard' = <<>>
  /\ listed' = {} /\ exited' = {}
  /\ UNCHANGED <<db, adds, augmented, shutdown_modules, message_id, rpc_calls, procedures,
                 handlers, ticks, calls, kills, timers, fired, handled>>

(***************************************************************************)
(* The 'exit' event of a child.  `l` is the child and where its handle is. *)
(***************************************************************************)
\* MayRestart with `<=` for `<`
MayRestartOnceMore(e) == e.restart <= 3

\* whether the restart budget lets the module be run again
MayRestart(e) == e.restart < 3

\* the strays once child l.proc is gone
Gone(l) == IF l.at = "stray" THEN strays (-) One(l.proc) ELSE strays

\* the listener attached by run_module
exit_restart(l) ==
  LET name == l.proc.name IN
  IF ~Has(running_modules, name)
  THEN \* `delete my.running_modules[module.name].process` on undefined
       /\ thrown' = "TypeError"
       /\ strays' = Gone(l)
       /\ UNCHANGED <<running_modules, runs>>
  ELSE LET i == IndexOf(running_modules, name)
           e == running_modules[i]
           \* the handle the entry holds is deleted, whoever exited
           left == IF l.at = "stray" /\ e.process.alive
                   THEN Gone(l) (+) One(e.process) ELSE Gone(l)
       IN /\ thrown' = ""
          /\ strays' = left
          /\ IF MayRestart(e)
             THEN /\ BagCardinality(runs) < MaxCalls
                  /\ running_modules' =
                       [running_modules EXCEPT ![i].process = NoProcess,
                                               ![i].restart = @ + 1]
                  /\ runs' = StartRun(l.proc.path, TRUE)
             ELSE /\ running_modules' = Delete(running_modules, name)
                  /\ UNCHANGED runs

\* the listener attached by kill_module
exit_kill(l) ==
  LET name == l.proc.name IN
  IF name \notin DOMAIN shutdown_modules
  THEN \* `my.shutdown_modules[module.name].process` on undefined
       /\ thrown' = "TypeError"
       /\ strays' = Gone(l)
       /\ kills' = Released(kills, calls, shutdown_modules, Gone(l))
       /\ done' = {}
       /\ UNCHANGED shutdown_modules
  ELSE LET q == shutdown_modules[name].process
           sh == DeleteKey(shutdown_modules, name)
           \* q.removeAllListeners(), on the handle the entry holds
           ss == IF l.at = "stray" THEN Gone(l) (+) One(Stripped(q))
                 ELSE strays
           r == Finish(kills, l.proc.cb, name, "")
       IN /\ thrown' = ""
          /\ shutdown_modules' = sh
          /\ strays' = ss
          /\ kills' = Released(r.kills, calls, sh, ss)
          /\ done' = r.done

\* what the step that handles the 'exit' event of child l leaves in
\* `exited`: the listener that ran, and the restart counter it found
NoEntry == -1
Exit(l) ==
  [name |-> l.proc.name, listener |-> l.proc.exit, mid |-> l.proc.cb.mid,
   signalled |-> l.proc.signalled,
   restart |-> IF Has(running_modules, l.proc.name)
               THEN Get(running_modules, l.proc.name).restart ELSE NoEntry]

child_exit(l) ==
  /\ Turn
  /\ l \in Locs
  /\ exited' = {Exit(l)}
  /\ CASE l.proc.exit = "restart" ->
            /\ exit_restart(l)
            /\ done' = {}
            /\ UNCHANGED <<shutdown_modules, kills>>
       [] l.proc.exit = "kill" ->
            /\ exit_kill(l)
            /\ UNCHANGED <<running_modules, runs>>
       [] OTHER ->
            /\ strays' = Gone(l)
            /\ thrown' = ""
            /\ done' = {}
            /\ UNCHANGED <<running_modules, shutdown_modules, runs, kills>>
  /\ listed' = {}
  /\ Quiet
  /\ UNCHANGED <<db, adds, augmented, procedures, calls, timers>>

(***************************************************************************)
(* kill_module(path, cb_)                                                  *)
(***************************************************************************)
\* the call: async.series starts db.find({ path: path })
kill_module(path) ==
  /\ InFlight < MaxCalls
  /\ calls' = calls (+) One(Call(path, NoKill))
  /\ done' = {} /\ thrown' = "" /\ listed' = {} /\ exited' = {}
  /\ Quiet
  /\ UNCHANGED <<db, adds, augmented, running_modules, shutdown_modules, procedures, strays,
                 runs, kills, timers>>

\* the entry kill_module moves to my.shutdown_modules: its process has the
\* 'exit' listener replaced by the one that holds the callback
Moved(e, cb) == [e EXCEPT !.process.exit = "kill", !.process.cb = cb]

\* the child whose handle my.shutdown_modules[name] held before
Overwritten(sh, name) ==
  IF name \in DOMAIN sh THEN One(sh[name].process) ELSE EmptyBag

\* the callback of db.find: module_unknown, or the `Kill.` step
kill_module_find(c) ==
  /\ Turn
  /\ c \in BagToSet(calls)
  /\ calls' = calls (-) One(c)
  /\ LET modules == {r \in db : r.path = c.arg}
         cb0 == [arg |-> c.arg, parent |-> c.parent, mid |-> NoMid]
     IN
     IF modules = {}
     THEN LET r == Finish(kills, cb0, "", "module_unknown") IN
          /\ kills' = Released(r.kills, calls', shutdown_modules, strays)
          /\ done' = r.done
          /\ thrown' = ""
          /\ Quiet
          /\ UNCHANGED <<running_modules, shutdown_modules, strays, timers>>
     ELSE
     LET name == (CHOOSE r \in modules : TRUE).name IN
     IF ~Has(running_modules, name)
     THEN LET r == Finish(kills, cb0, name, "") IN
          /\ kills' = Released(r.kills, calls', shutdown_modules, strays)
          /\ done' = r.done
          /\ thrown' = ""
          /\ Quiet
          /\ UNCHANGED <<running_modules, shutdown_modules, strays, timers>>
     ELSE
     LET s0 == [Snapshot EXCEPT !.mid = @ + 1]
         st == dispatch(s0, RpcCall(s0.mid, core_name, name, "kill"), "later")
         e  == Get(running_modules, name)
         sh == PutKey(shutdown_modules, name,
                      Moved(e, [cb0 EXCEPT !.mid = s0.mid]))
         ss == strays (+) Overwritten(shutdown_modules, name)
     IN /\ st.mid <= MaxMid
        /\ done' = {}
        /\ IF st.thrown # ""
           THEN /\ Commit(st)
                /\ kills' = Released(kills, calls', shutdown_modules, strays)
                /\ UNCHANGED <<shutdown_modules, strays, timers>>
           ELSE /\ Commit([st EXCEPT !.rm = Delete(@, name)])
                /\ shutdown_modules' = sh
                /\ strays' = ss
                /\ timers' = timers \cup {[name |-> name, mid |-> s0.mid]}
                /\ UNCHANGED kills
  /\ listed' = {} /\ exited' = {}
  /\ UNCHANGED <<db, adds, augmented, procedures, runs>>

\* the callback of setTimeout(..., 5 * 1000)
timeout(t) ==
  /\ Turn
  /\ t \in timers
  /\ timers' = timers \ {t}
  /\ IF t.name \in DOMAIN shutdown_modules
     THEN shutdown_modules' =
            [shutdown_modules EXCEPT ![t.name].process.signalled = TRUE]
     ELSE UNCHANGED shutdown_modules
  /\ done' = {} /\ thrown' = "" /\ listed' = {} /\ exited' = {}
  /\ Quiet
  /\ UNCHANGED <<db, adds, augmented, running_modules, procedures, strays, runs, calls, kills>>

(***************************************************************************)
(* kill(cb_): async.each over the running modules, calling                 *)
(* kill_module(module.name, cb_) for each.                                 *)
(***************************************************************************)
\* the calls kill_module(module.name, cb_) of kill() number k
KillCalls(rm, k) ==
  LET RECURSIVE Sum(_)
      Sum(i) == IF i > Len(rm) THEN EmptyBag
                ELSE One(Call(rm[i].name, k)) (+) Sum(i + 1)
  IN Sum(1)

kill ==
  /\ IF running_modules = <<>>
     THEN /\ done' = {Completion("kill", "", "", "", NoMid, NoKill, {})}
          /\ UNCHANGED <<calls, kills>>
     ELSE /\ InFlight + Len(running_modules) <= MaxCalls
          /\ \E k \in KillIds :
               /\ ~kills[k].active
               /\ \A j \in KillIds : ~kills[j].active => k <= j
               /\ kills' = [kills EXCEPT ![k] =
                              [NoKillCall EXCEPT
                                 !.active = TRUE,
                                 !.n = Len(running_modules),
                                 !.targets = Keys(running_modules)]]
               /\ calls' = calls (+) KillCalls(running_modules, k)
          /\ done' = {}
  /\ thrown' = "" /\ listed' = {} /\ exited' = {}
  /\ Quiet
  /\ UNCHANGED <<db, adds, augmented, running_modules, shutdown_modules, procedures, strays,
                 runs, timers>>

(***************************************************************************)
(* The core module: core_expose, core_call, core_emit.                     *)
(***************************************************************************)
ProcedureNames == {"ping"}

core_expose(proc) ==
  /\ procedures' = procedures \cup {proc}
  /\ done' = {} /\ thrown' = "" /\ listed' = {} /\ exited' = {}
  /\ Quiet
  /\ UNCHANGED <<db, adds, augmented, running_modules, shutdown_modules, strays, runs, calls,
                 kills, timers>>

\* core_call stores cb_ under the value of message_id after dispatch
\* returned; the continuation is named by the id core_call allocated
StoreCall(st, call) == [st EXCEPT !.rpc = PutKey(@, st.mid, call)]

core_call(name, proc, h) ==
  /\ LET s0 == [Snapshot EXCEPT !.mid = @ + 1]
         st == dispatch(s0, RpcCall(s0.mid, core_name, name, proc), h)
     IN /\ st.mid <= MaxMid
        /\ IF st.thrown # "" THEN Commit(st)
           ELSE Commit(StoreCall(st, s0.mid))
  /\ done' = {} /\ listed' = {} /\ exited' = {}
  /\ UNCHANGED <<db, adds, augmented, shutdown_modules, procedures, strays, runs, calls,
                 kills, timers>>

core_emit(type) ==
  /\ LET s0 == [Snapshot EXCEPT !.mid = @ + 1]
         st == dispatch(s0, Event(s0.mid, core_name, type), "later")
     IN /\ st.mid <= MaxMid
        /\ Commit(st)
  /\ done' = {} /\ listed' = {} /\ exited' = {}
  /\ UNCHANGED <<db, adds, augmented, shutdown_modules, procedures, strays, runs, calls,
                 kills, timers>>

\* an exposed procedure that kept its callback calls it with (err, res)
handler_done(m, outcome) ==
  /\ m \in handlers
  /\ handlers' = handlers \ {m}
  /\ ticks' = Append(ticks, IF outcome = "ok" THEN [m EXCEPT !.res = Result]
                            ELSE [m EXCEPT !.err = HandlerErr])
  /\ sent' = <<>> /\ thrown' = "" /\ dispatched' = <<>>
  /\ offered' = <<>> /\ heard' = <<>>
  /\ done' = {} /\ listed' = {} /\ exited' = {}
  /\ UNCHANGED <<db, adds, augmented, running_modules, shutdown_modules, message_id,
                 rpc_calls, procedures, strays, runs, calls, kills, timers,
                 fired, handled>>

\* the callback queued with process.nextTick: dispatch(msg)
next_tick(h) ==
  /\ ticks # <<>>
  /\ Commit(dispatch([Snapshot EXCEPT !.tickq = Tail(ticks)], Head(ticks), h))
  /\ done' = {} /\ listed' = {} /\ exited' = {}
  /\ UNCHANGED <<db, adds, augmented, shutdown_modules, procedures, strays, runs, calls,
                 kills, timers>>

(***************************************************************************)
(* The 'message' event of a child, attached by run_module.                 *)
(***************************************************************************)
\* Signed without the assignment
Unsigned(msg, name) == msg

\* msg.hdr.src = module.name
Signed(msg, name) == [msg EXCEPT !.src = name]

child_message(l, msg, h) ==
  /\ Turn
  /\ l \in Locs /\ l.proc.message
  /\ LET name == l.proc.name
         s == [Snapshot EXCEPT !.heard = <<[name |-> name, msg |-> msg]>>]
     IN
     IF msg.typ = "event" /\ msg.etyp = "internal:ready"
     THEN LET s0 == [s EXCEPT !.mid = @ + 1]
              st == dispatch(s0, RpcCall(s0.mid, core_name, name, "init"), h)
          IN st.mid <= MaxMid /\ Commit(st)
     ELSE IF msg.typ # NotAString /\ msg.mid # NotANumber
     THEN LET st == dispatch(s, Signed(msg, name), h)
          IN /\ st.mid <= MaxMid
             /\ \A i \in DOMAIN st.rm : Len(st.rm[i].registrations) <= MaxRegs
             /\ Commit(st)
     ELSE Commit(s)
  /\ done' = {} /\ listed' = {} /\ exited' = {}
  /\ UNCHANGED <<db, adds, augmented, shutdown_modules, procedures, strays, runs, calls,
                 kills, timers>>

(***************************************************************************)
(* list(cb_): the records of my.db, each with running: true when           *)
(* my.running_modules holds its name.                                      *)
(***************************************************************************)
ListResult ==
  {[path |-> m.path, name |-> m.name, version |-> m.version,
    active |-> m.active, running |-> Has(running_modules, m.name)]
     : m \in db}

list ==
  /\ Turn
  /\ listed' = ListResult
  /\ exited' = {}
  /\ done' = {} /\ thrown' = ""
  /\ Quiet
  /\ UNCHANGED <<db, adds, augmented, running_modules, shutdown_modules, procedures, strays,
                 runs, calls, kills, timers>>

(***************************************************************************)
(* Module paths.  A path is a string; expand_path parses it with two       *)
(* regular expressions.  The paths of the model are few, so the parse is   *)
(* a table over the strings that the host passes and that augment_path     *)
(* composes:                                                               *)
(*   github:<owner>/<name>         tag null                                *)
(*   github:<owner>/<name>#<tag>                                           *)
(*   local:<path>                  path normalized by path.normalize       *)
(*   anything else                 null                                    *)
(***************************************************************************)
NoTag == ""
NoPath == [type |-> "null", owner |-> "", name |-> "", tag |-> NoTag,
           path |-> ""]

Github(owner, name, tag) ==
  [type |-> "github", owner |-> owner, name |-> name, tag |-> tag,
   path |-> ""]

Local(path) ==
  [type |-> "local", owner |-> "", name |-> "", tag |-> NoTag, path |-> path]

\* the repositories of the remote and the names of their tags
Repos == {<<"o", "n">>, <<"o", "m">>}
TagNames == {"v1.0.0", "v1.2.0", "v1.2.0-rc1", "dev"}
TagsWritten == TagNames \cup {"master"}

\* what follows `local:`, and require('path').normalize of it
LocalSpellings == {"/a", "/b", "/c", "/x/../c", "/d", "/nowhere"}
normalize(p) == IF p = "/x/../c" THEN "/c" ELSE p

expand_path(path) ==
  IF \E r \in Repos : path = "github:" \o r[1] \o "/" \o r[2]
  THEN LET r == CHOOSE r \in Repos : path = "github:" \o r[1] \o "/" \o r[2]
       IN Github(r[1], r[2], NoTag)
  ELSE IF \E r \in Repos, t \in TagsWritten :
            path = "github:" \o r[1] \o "/" \o r[2] \o "#" \o t
  THEN LET m == CHOOSE m \in Repos \X TagsWritten :
                  path = "github:" \o m[1][1] \o "/" \o m[1][2] \o "#" \o m[2]
       IN Github(m[1][1], m[1][2], m[2])
  ELSE IF \E p \in LocalSpellings : path = "local:" \o p
  THEN Local(normalize(CHOOSE p \in LocalSpellings : path = "local:" \o p))
  ELSE NoPath

(***************************************************************************)
(* semver.  clean(v, true) gives the version a string stands for, or       *)
(* null; gt and lt compare major, minor, patch, and put a prerelease       *)
(* before its release.                                                     *)
(***************************************************************************)
NoVersion == ""

semver_clean(v) ==
  CASE v \in {"1.0.0", "v1.0.0"} -> "1.0.0"
    [] v \in {"1.2.0", "v1.2.0"} -> "1.2.0"
    [] v \in {"1.2.0-rc1", "v1.2.0-rc1"} -> "1.2.0-rc1"
    [] v \in {"1.2.3", "v1.2.3"} -> "1.2.3"
    [] OTHER -> NoVersion

\* major, minor, patch, and 0 for a prerelease, 1 for a release
Precedence(version) ==
  CASE version = "1.0.0" -> <<1, 0, 0, 1>>
    [] version = "1.2.0" -> <<1, 2, 0, 1>>
    [] version = "1.2.0-rc1" -> <<1, 2, 0, 0>>
    [] version = "1.2.3" -> <<1, 2, 3, 1>>

semver_gt(a, b) ==
  LET x == Precedence(a)
      y == Precedence(b)
  IN \E i \in 1..4 : x[i] > y[i] /\ \A j \in 1..(i - 1) : x[j] = y[j]

semver_lt(a, b) == semver_gt(b, a)

(***************************************************************************)
(* augment_path(path, cb_), for a github path: what the callback of        *)
(* repo.tags gives to cb_ when the listing is `data`.                      *)
(***************************************************************************)
\* the comparator of vers.sort, with its arguments exchanged
compare_ascending(a, b) ==
  IF semver_gt(a.version, b.version) THEN 1
  ELSE IF semver_lt(a.version, b.version) THEN -1 ELSE 0

\* the comparator of vers.sort
compare(a, b) ==
  IF semver_gt(b.version, a.version) THEN 1
  ELSE IF semver_lt(b.version, a.version) THEN -1 ELSE 0

\* Array.prototype.sort with `compare`: a stable insertion sort
Insert(v, sorted) ==
  LET after == {i \in DOMAIN sorted : compare(sorted[i], v) > 0}
      k == IF after = {} THEN Len(sorted) + 1
           ELSE CHOOSE i \in after : \A j \in after : i <= j
  IN SubSeq(sorted, 1, k - 1) \o <<v>> \o SubSeq(sorted, k, Len(sorted))

RECURSIVE Sort(_)
Sort(vers) ==
  IF vers = <<>> THEN <<>>
  ELSE Insert(vers[Len(vers)], Sort(SubSeq(vers, 1, Len(vers) - 1)))

\* the tags of the listing that semver.clean accepts, in the listing's order
RECURSIVE Versions(_)
Versions(data) ==
  IF data = <<>> THEN <<>>
  ELSE LET v == semver_clean(Head(data))
       IN (IF v # NoVersion THEN <<[version |-> v, tag |-> Head(data)]>>
           ELSE <<>>) \o Versions(Tail(data))

Resolved(path) == [err |-> "", path |-> path]
Failed(err) == [err |-> err, path |-> ""]

augment_path(path, data) ==
  LET p == expand_path(path)
      vers == Sort(Versions(data))
      match == \E i \in DOMAIN data : p.tag = data[i]
      base == p.type \o ":" \o p.owner \o "/" \o p.name
  IN IF match THEN Resolved(path)
     ELSE IF p.tag = "master" THEN Resolved(base \o "#master")
     ELSE IF p.tag # NoTag THEN Failed("invalid_path")
     ELSE IF Len(vers) > 0 THEN Resolved(base \o "#" \o vers[1].tag)
     ELSE Resolved(base \o "#master")

(***************************************************************************)
(* The file system and the remote, as add finds them: the directories      *)
(* that exist, the package.json each holds, and the records of a session   *)
(* that was saved with a module of the remote.                             *)
(***************************************************************************)
Directories == {"/a", "/b", "/c", "/d"}

package_json(dir) ==
  CASE dir = "/a" -> [name |-> "alpha", version |-> "1.0.0"]
    [] dir = "/b" -> [name |-> "beta", version |-> "1.0.0"]
    [] dir = "/c" -> [name |-> "alpha", version |-> "v1.2.3"]
    [] dir = "/d" -> [name |-> "delta", version |-> "one"]

RemoteRecord ==
  [path |-> "github:o/n#v1.0.0", name |-> "gamma", version |-> "1.0.0",
   active |-> TRUE]

Sessions == {Records, Records \cup {RemoteRecord}}

(***************************************************************************)
(* add(path, cb_) and remove(path, cb_).  A call in flight is the chain of *)
(* callbacks of its async.series, waiting at `stage`:                      *)
(*   add    : "augment" (fs.stat or repo.tags), "find" (db.find({})),      *)
(*            "manifest" (fs.readFile), "name" (db.find({ name })),        *)
(*            "update" (db.update)                                         *)
(*   remove : "find" (db.find({ path })), "remove" (db.remove),            *)
(*            "fs" (fs.remove)                                             *)
(* with `path` the augmented path and `module` the record being built or   *)
(* found.  A database operation takes effect in the step of its callback.  *)
(***************************************************************************)
NoModule == [path |-> "", name |-> "", version |-> NoVersion, active |-> FALSE]

AddCall(stage, arg, path, module) ==
  [op |-> "add", stage |-> stage, arg |-> arg, path |-> path,
   module |-> module]

RemoveCall(stage, arg, module) ==
  [op |-> "remove", stage |-> stage, arg |-> arg, path |-> arg,
   module |-> module]

Moves(a, b) == (adds (-) One(a)) (+) One(b)

Completes(kind, a, err) ==
  {Completion(kind, a.arg, a.module.name, err, NoMid, NoKill, {})}

\* what a step of add or remove leaves alone
Registry ==
  /\ listed' = {} /\ exited' = {}
  /\ Quiet
  /\ UNCHANGED <<running_modules, shutdown_modules, procedures, strays, runs,
                 kills, timers>>

\* the call: augment_path answers an unparsable path at once, and starts
\* fs.stat or repo.tags otherwise
add(path) ==
  /\ BagCardinality(adds) < MaxAdds
  /\ IF expand_path(path) = NoPath
     THEN /\ done' = Completes("add", AddCall("", path, "", NoModule),
                               "invalid_path")
          /\ UNCHANGED adds
     ELSE /\ adds' = adds (+) One(AddCall("augment", path, "", NoModule))
          /\ done' = {}
  /\ augmented' = <<>> /\ thrown' = ""
  /\ Registry
  /\ UNCHANGED <<db, calls>>

\* augment_path for a local path: the callback of fs.stat
augment_local(path) ==
  LET p == expand_path(path)
  IN IF p.path \in Directories THEN Resolved(p.type \o ":" \o p.path)
     ELSE Failed("ENOENT")

\* the callback of fs.stat, or of repo.tags with `err` or the listing `data`
add_augmented(a, data, err) ==
  /\ Turn
  /\ a \in BagToSet(adds) /\ a.op = "add" /\ a.stage = "augment"
  /\ LET r == IF expand_path(a.arg).type = "local"
              THEN augment_local(a.arg)
              ELSE IF err # "" THEN Failed(err)
              ELSE augment_path(a.arg, data)
     IN /\ augmented' = <<[arg |-> a.arg, data |-> data, err |-> r.err,
                          path |-> r.path]>>
        /\ IF r.err # ""
           THEN /\ adds' = adds (-) One(a)
                /\ done' = Completes("add", a, r.err)
           ELSE /\ adds' = Moves(a, AddCall("find", a.arg, r.path, NoModule))
                /\ done' = {}
  /\ thrown' = ""
  /\ Registry
  /\ UNCHANGED <<db, calls>>

\* Conflicts without the comparison of owner and name
ConflictsOnPath(m, path) == m.path = path

\* the test of the loop over the records: m is in the way of `path`
Conflicts(m, path) ==
  /\ expand_path(m.path).type = expand_path(path).type
  /\ \/ m.path = path
     \/ /\ expand_path(path).type = "github"
        /\ expand_path(m.path).owner = expand_path(path).owner
        /\ expand_path(m.path).name = expand_path(path).name
     \/ /\ expand_path(path).type = "local"
        /\ m.path = path

\* the callback of db.find({}): module_conflict, or on to the package.json;
\* for a github path, `epxand_path` is a ReferenceError
add_find(a) ==
  /\ Turn
  /\ a \in BagToSet(adds) /\ a.op = "add" /\ a.stage = "find"
  /\ IF \E m \in db : Conflicts(m, a.path)
     THEN /\ adds' = adds (-) One(a)
          /\ done' = Completes("add", a, "module_conflict")
          /\ thrown' = ""
     ELSE IF expand_path(a.path).type = "local"
     THEN /\ adds' = Moves(a, [a EXCEPT !.stage = "manifest"])
          /\ done' = {}
          /\ thrown' = ""
     ELSE /\ adds' = adds (-) One(a)
          /\ done' = {}
          /\ thrown' = "ReferenceError"
  /\ augmented' = <<>>
  /\ Registry
  /\ UNCHANGED <<db, calls>>

\* the callback of fs.readFile, and the check of version and name that
\* starts db.find({ name: module.name })
add_manifest(a) ==
  /\ Turn
  /\ a \in BagToSet(adds) /\ a.op = "add" /\ a.stage = "manifest"
  /\ LET json == package_json(expand_path(a.path).path)
         module == [path |-> a.path, name |-> json.name,
                    version |-> semver_clean(json.version), active |-> TRUE]
     IN IF module.version = NoVersion
        THEN /\ adds' = adds (-) One(a)
             /\ done' = Completes("add", a, "invalid_version")
        ELSE IF module.name = ""
        THEN /\ adds' = adds (-) One(a)
             /\ done' = Completes("add", a, "invalid_name")
        ELSE /\ adds' = Moves(a, [a EXCEPT !.stage = "name",
                                           !.module = module])
             /\ done' = {}
  /\ augmented' = <<>> /\ thrown' = ""
  /\ Registry
  /\ UNCHANGED <<db, calls>>

\* the callback of db.find({ name: module.name }): with a record of that
\* name, the message of the error reads `m.name`, and no `m` is in scope;
\* otherwise on to db.update
add_name(a) ==
  /\ Turn
  /\ a \in BagToSet(adds) /\ a.op = "add" /\ a.stage = "name"
  /\ IF {m \in db : m.name = a.module.name} # {}
     THEN /\ adds' = adds (-) One(a)
          /\ thrown' = "ReferenceError"
     ELSE /\ adds' = Moves(a, [a EXCEPT !.stage = "update"])
          /\ thrown' = ""
  /\ done' = {} /\ augmented' = <<>>
  /\ Registry
  /\ UNCHANGED <<db, calls>>

\* db.update({ path: module.path }, module, { upsert: true })
Upsert(d, module) ==
  LET same == {m \in d : m.path = module.path}
  IN IF same = {} THEN d \cup {module}
     ELSE (d \ {CHOOSE m \in same : TRUE}) \cup {module}

\* the callback of db.update
add_update(a) ==
  /\ Turn
  /\ a \in BagToSet(adds) /\ a.op = "add" /\ a.stage = "update"
  /\ db' = Upsert(db, a.module)
  /\ adds' = adds (-) One(a)
  /\ done' = Completes("add", a, "")
  /\ augmented' = <<>> /\ thrown' = ""
  /\ Registry
  /\ UNCHANGED calls

\* the call: async.series starts db.find({ path: path })
remove(path) ==
  /\ BagCardinality(adds) < MaxAdds
  /\ adds' = adds (+) One(RemoveCall("find", path, NoModule))
  /\ done' = {} /\ augmented' = <<>> /\ thrown' = ""
  /\ Registry
  /\ UNCHANGED <<db, calls>>

\* the callback of db.find({ path: path }): module_unknown, or db.remove
remove_find(r) ==
  /\ Turn
  /\ r \in BagToSet(adds) /\ r.op = "remove" /\ r.stage = "find"
  /\ LET modules == {m \in db : m.path = r.arg} IN
     IF modules = {}
     THEN /\ adds' = adds (-) One(r)
          /\ done' = Completes("remove", r, "module_unknown")
     ELSE /\ adds' = Moves(r, RemoveCall("remove", r.arg,
                                         CHOOSE m \in modules : TRUE))
          /\ done' = {}
  /\ augmented' = <<>> /\ thrown' = ""
  /\ Registry
  /\ UNCHANGED <<db, calls>>

\* the last step of remove: kill_module(module.name, cb_) for a module that
\* is running (the callback of remove is then the callback of that call),
\* cb_() otherwise
remove_stop(r) ==
  IF Has(running_modules, r.module.name)
  THEN /\ InFlight < MaxCalls
       /\ calls' = calls (+) One(Call(r.module.name, NoKill))
       /\ done' = {}
  ELSE /\ done' = Completes("remove", r, "")
       /\ UNCHANGED calls

\* the callback of db.remove({ path: path }, { multi: true }); a github
\* module is then deleted from the file system, a local one is stopped
remove_removed(r) ==
  /\ Turn
  /\ r \in BagToSet(adds) /\ r.op = "remove" /\ r.stage = "remove"
  /\ db' = {m \in db : m.path # r.arg}
  /\ IF expand_path(r.arg).type = "github"
     THEN /\ adds' = Moves(r, [r EXCEPT !.stage = "fs"])
          /\ done' = {}
          /\ UNCHANGED calls
     ELSE /\ adds' = adds (-) One(r)
          /\ remove_stop(r)
  /\ augmented' = <<>> /\ thrown' = ""
  /\ Registry

\* the callback of fs.remove(storage_path(path))
remove_fs(r) ==
  /\ Turn
  /\ r \in BagToSet(adds) /\ r.op = "remove" /\ r.stage = "fs"
  /\ adds' = adds (-) One(r)
  /\ remove_stop(r)
  /\ augmented' = <<>> /\ thrown' = ""
  /\ Registry
  /\ UNCHANGED db

(***************************************************************************)
(* What a child may send, and what the host may call with.                 *)
(***************************************************************************)
ChildMids == 1..MaxChildMid
\* whatever hdr.src the child wrote, the 'message' listener overwrites it
ChildSrc == {core_name}
RegisterPatterns == {<<".*", "state:.*">>, <<"^core$", ".*">>}
CallTargets == Names \cup {core_name, "nobody"}
CalledProcedures == ProcedureNames \cup {"nope"}

ChildMessages ==
  UNION { {Register(m, x, pp[1], pp[2]) : pp \in RegisterPatterns}
          \cup {Unregister(m, x, rid) : rid \in ChildMids}
          \cup {Event(m, x, t) : t \in EventTypes \cup {"internal:ready"}}
          \cup {RpcCall(m, x, d, prc) : d \in CallTargets, prc \in CalledProcedures}
          \cup {RpcReply(m, x, d, oid, NoErr, Result) :
                  d \in Names \cup {core_name}, oid \in 1..MaxMid}
          \cup {RpcReply(m, x, core_name, oid, HandlerErr, NoRes) :
                  oid \in 1..MaxMid}
        : m \in ChildMids, x \in ChildSrc }

\* an exposed procedure's handler runs for an rpc_call addressed to core only
HandlerModesFor(msg) ==
  IF msg.typ = "rpc_call" /\ msg.dst = core_name /\ msg.prc \in procedures
  THEN HandlerModes
  ELSE {"later"}

HostPaths == Paths \cup {UnknownPath}

Next ==
  \/ \E path \in HostPaths : run_module(path)
  \/ \E r \in BagToSet(runs) : run_module_find(r)
  \/ \E r \in BagToSet(runs), ok \in BOOLEAN : run_module_install(r, ok)
  \/ \E l \in Locs : child_exit(l)
  \/ \E l \in Locs, msg \in ChildMessages :
       \E h \in HandlerModesFor(msg) : child_message(l, msg, h)
  \/ \E path \in HostPaths : kill_module(path)
  \/ \E c \in BagToSet(calls) : kill_module_find(c)
  \/ \E t \in timers : timeout(t)
  \/ kill
  \/ \E proc \in ProcedureNames : core_expose(proc)
  \/ \E name \in CallTargets, proc \in CalledProcedures :
       \E h \in HandlerModesFor(RpcCall(NoMid, core_name, name, proc)) :
         core_call(name, proc, h)
  \/ \E type \in EventTypes : core_emit(type)
  \/ \E m \in handlers, outcome \in {"ok", "err"} : handler_done(m, outcome)
  \/ ticks # <<>> /\ \E h \in HandlerModesFor(Head(ticks)) : next_tick(h)
  \/ list

Spec == Init /\ [][Next]_vars

(***************************************************************************)
(* The lifecycle alone: run_module, kill_module, kill, the children's      *)
(* exits, the force-kill timers and list, of one module whose child sends  *)
(* nothing.                                                                *)
(***************************************************************************)
LifePaths == {"local:/a"}

\* a child exits when no call of the host is pending with its restart: the
\* calls and the restarts in flight stay within the bound together
Serial == InFlight <= MaxCalls

NextLife ==
  \/ \E path \in LifePaths : run_module(path)
  \/ \E r \in BagToSet(runs) : run_module_find(r)
  \/ \E r \in BagToSet(runs), ok \in BOOLEAN : run_module_install(r, ok)
  \/ \E l \in Locs : child_exit(l) /\ Serial'
  \/ \E path \in LifePaths : kill_module(path)
  \/ \E c \in BagToSet(calls) : kill_module_find(c)
  \/ \E t \in timers : timeout(t)
  \/ kill
  \/ list

SpecLife == Init /\ [][NextLife]_vars

(***************************************************************************)
(* The event bus alone: two modules that register, unregister and emit,    *)
(* core_emit, and the exits that restart a child.                          *)
(***************************************************************************)
EventMessages ==
  {m \in ChildMessages :
     \/ m.typ = "register"
     \/ m.typ = "unregister" /\ m.mid = 1
     \/ m.typ = "event" /\ m.etyp \in EventTypes /\ m.mid = 1}

\* the children register less than they may: each module holds fewer
\* registrations than the bound
Sparse ==
  \A i \in DOMAIN running_modules :
    Len(running_modules[i].registrations) < MaxRegs

\* the host runs a module that is not running, one call at a time
FirstRun(path) ==
  /\ runs = EmptyBag
  /\ \A r \in Records : r.path = path => ~Has(running_modules, r.name)

\* the child of beta exits unexpectedly, once
FirstExit(l) ==
  /\ l.proc.name = "beta"
  /\ Has(running_modules, l.proc.name)
  /\ Get(running_modules, l.proc.name).restart = 0

NextEvents ==
  \/ \E path \in Paths : FirstRun(path) /\ run_module(path)
  \/ \E r \in BagToSet(runs) : run_module_find(r)
  \/ \E r \in BagToSet(runs) : run_module_install(r, TRUE)
  \/ \E l \in Locs : FirstExit(l) /\ child_exit(l)
  \/ \E l \in Locs, msg \in EventMessages :
       child_message(l, msg, "later") /\ Sparse'
  \/ \E type \in EventTypes : core_emit(type)

SpecEvents == Init /\ [][NextEvents]_vars

(***************************************************************************)
(* The procedure calls alone: one module and the core module calling each  *)
(* other, the exposed procedures' handlers and the deferred replies.       *)
(***************************************************************************)
RpcMessages == {m \in ChildMessages : m.typ \in {"rpc_call", "rpc_reply"}}

NextRpc ==
  \/ \E path \in LifePaths : FirstRun(path) /\ run_module(path)
  \/ \E r \in BagToSet(runs) : run_module_find(r)
  \/ \E r \in BagToSet(runs) : run_module_install(r, TRUE)
  \/ \E l \in Locs : child_exit(l)
  \/ \E l \in Locs, msg \in RpcMessages :
       \E h \in HandlerModesFor(msg) : child_message(l, msg, h)
  \/ \E proc \in ProcedureNames : core_expose(proc)
  \/ \E name \in CallTargets, proc \in CalledProcedures :
       \E h \in HandlerModesFor(RpcCall(NoMid, core_name, name, proc)) :
         core_call(name, proc, h)
  \/ \E m \in handlers, outcome \in {"ok", "err"} : handler_done(m, outcome)
  \/ ticks # <<>> /\ \E h \in HandlerModesFor(Head(ticks)) : next_tick(h)

SpecRpc == Init /\ [][NextRpc]_vars

(***************************************************************************)
(* The validation gate: dispatch applied to messages that are well formed  *)
(* and to messages that lack a field or name an unknown source, beside the *)
(* 'message' listener of a module that is run, killed, or restarted until  *)
(* its budget is spent.                                                    *)
(***************************************************************************)
\* dispatch(msg), for any msg
dispatch_msg(msg) ==
  /\ LET st == dispatch(Snapshot, msg, "later")
     IN /\ st.mid <= MaxMid
        /\ \A i \in DOMAIN st.rm : Len(st.rm[i].registrations) <= MaxRegs
        /\ Commit(st)
  /\ done' = {} /\ listed' = {} /\ exited' = {}
  /\ UNCHANGED <<db, adds, augmented, shutdown_modules, procedures, strays, runs, calls,
                 kills, timers>>

WellFormed ==
  {Register(1, "alpha", ".*", ".*"), Event(1, "alpha", "tick"),
   RpcCall(1, "alpha", core_name, "nope")}

\* each well-formed message, as it is and from a module that never ran, and
\* a register with one header field spoiled
GateMessages ==
  WellFormed \cup {[m EXCEPT !.src = "beta"] : m \in WellFormed}
    \cup {[Register(1, "alpha", ".*", ".*") EXCEPT !.typ = NotAString],
          [Register(1, "alpha", ".*", ".*") EXCEPT !.mid = NotANumber],
          [Register(1, "alpha", ".*", ".*") EXCEPT !.src = NotAString]}

NextGate ==
  \/ \E path \in LifePaths : FirstRun(path) /\ run_module(path)
  \/ \E r \in BagToSet(runs) : run_module_find(r)
  \/ \E r \in BagToSet(runs) : run_module_install(r, TRUE)
  \/ \E l \in Locs : child_exit(l) /\ Serial'
  \/ \E path \in LifePaths : kill_module(path)
  \/ \E c \in BagToSet(calls) : kill_module_find(c)
  \/ \E l \in Locs : child_message(l, Event(1, "alpha", "tick"), "later")
  \/ \E msg \in GateMessages : dispatch_msg(msg) /\ Sparse'
  \/ ticks # <<>> /\ next_tick("later")

SpecGate == Init /\ [][NextGate]_vars

(***************************************************************************)
(* The 'message' listener alone: two modules whose children write any      *)
(* hdr.src into what they send, while the host runs them and the children  *)
(* exit.                                                                   *)
(***************************************************************************)
Writers == {core_name, "beta"}

ChildWrites ==
  UNION { {Register(1, x, ".*", ".*"), Unregister(1, x, 1),
           Event(1, x, "tick"), RpcCall(1, x, "beta", "nope")}
        : x \in Writers }

\* a child that run_module forked exits unexpectedly once for each module
ExitsOnce(l) ==
  l.at = "running" => Get(running_modules, l.proc.name).restart = 0

NextChild ==
  \/ \E path \in Paths : FirstRun(path) /\ run_module(path)
  \/ \E r \in BagToSet(runs) : run_module_find(r)
  \/ \E r \in BagToSet(runs) : run_module_install(r, TRUE)
  \/ \E l \in Locs : ExitsOnce(l) /\ child_exit(l)
  \/ \E l \in Locs, msg \in ChildWrites : child_message(l, msg, "later")

SpecChild == Init /\ [][NextChild]_vars

(***************************************************************************)
(* The ready handshake alone: one module whose child signals               *)
(* internal:ready, while the host runs and stops the module and the        *)
(* children exit.                                                          *)
(***************************************************************************)
NextReady ==
  \/ \E path \in LifePaths : FirstRun(path) /\ run_module(path)
  \/ \E r \in BagToSet(runs) : run_module_find(r)
  \/ \E r \in BagToSet(runs) : run_module_install(r, TRUE)
  \/ \E l \in Locs : ExitsOnce(l) /\ child_exit(l)
  \/ \E path \in LifePaths : kill_module(path)
  \/ \E c \in BagToSet(calls) : kill_module_find(c)
  \/ \E l \in Locs : child_message(l, Event(1, core_name, "internal:ready"),
                                   "later")

SpecReady == Init /\ [][NextReady]_vars

(***************************************************************************)
(* The registry alone: add, remove and list on a session's records, the    *)
(* calls of the host interleaved.                                          *)
(***************************************************************************)
AddPaths ==
  {"local:/a", "local:/c", "local:/x/../c", "local:/d", "local:/nowhere",
   "github:o/n#master", "github:o/m", "bogus"}

RemovePaths == {"local:/a", "local:/x/../c", "github:o/n#v1.0.0"}

\* the tags that the repositories of the remote list
Published == <<"v1.0.0", "v1.2.0">>

InitRegistry ==
  /\ db \in Sessions
  /\ Constructed

NextRegistry ==
  \/ \E path \in AddPaths : add(path)
  \/ \E a \in BagToSet(adds) : add_augmented(a, Published, "")
  \/ \E a \in BagToSet(adds) : add_find(a)
  \/ \E a \in BagToSet(adds) : add_manifest(a)
  \/ \E a \in BagToSet(adds) : add_name(a)
  \/ \E a \in BagToSet(adds) : add_update(a)
  \/ \E path \in RemovePaths : remove(path)
  \/ \E r \in BagToSet(adds) : remove_find(r)
  \/ \E r \in BagToSet(adds) : remove_removed(r)
  \/ \E r \in BagToSet(adds) : remove_fs(r)
  \/ list

SpecRegistry == InitRegistry /\ [][NextRegistry]_vars

(***************************************************************************)
(* augment_path alone: add called with the paths of one repository, whose  *)
(* listing is any sequence of tags.                                        *)
(***************************************************************************)
RemotePaths ==
  {"github:o/n", "github:o/n#v1.0.0", "github:o/n#master", "github:o/n#dev"}

RECURSIVE SeqsUpTo(_)
SeqsUpTo(n) ==
  IF n = 0 THEN {<<>>}
  ELSE LET shorter == SeqsUpTo(n - 1)
       IN shorter \cup {Append(s, t) : s \in shorter, t \in TagNames}

Listings == SeqsUpTo(MaxTags)

NextAugment ==
  \/ \E path \in RemotePaths : adds = EmptyBag /\ add(path)
  \/ \E a \in BagToSet(adds), data \in Listings : add_augmented(a, data, "")
  \/ \E a \in BagToSet(adds) : add_augmented(a, <<>>, "ENOTFOUND")
  \/ \E a \in BagToSet(adds) : add_find(a)

SpecAugment == InitRegistry /\ [][NextAugment]_vars

(***************************************************************************)
(* The register message alone: two modules whose children register with    *)
(* patterns that are strings or not, and that compile or not, while        *)
(* core_emit sends events to the registrations made.                       *)
(***************************************************************************)
PatternsWritten == {".*", NotAString, BadPattern}

RegisterMessages ==
  {Register(1, core_name, s, t) : s \in PatternsWritten, t \in PatternsWritten}

NextRegister ==
  \/ \E path \in Paths : FirstRun(path) /\ run_module(path)
  \/ \E r \in BagToSet(runs) : run_module_find(r)
  \/ \E r \in BagToSet(runs) : run_module_install(r, TRUE)
  \/ \E l \in Locs, msg \in RegisterMessages : child_message(l, msg, "later")
  \/ \E type \in EventTypes : core_emit(type)

SpecRegister == Init /\ [][NextRegister]_vars

(***************************************************************************)
(* The registrations alone: two modules whose children register under the  *)
(* message ids they pick and unregister, and exit once.                    *)
(***************************************************************************)
RegistrationIds == {1, 2}

RegistrationMessages ==
  {Register(m, core_name, ".*", ".*") : m \in RegistrationIds}
    \cup {Unregister(1, core_name, rid) :
            rid \in RegistrationIds \cup {NotANumber}}

NextRegistrations ==
  \/ \E path \in Paths : FirstRun(path) /\ run_module(path)
  \/ \E r \in BagToSet(runs) : run_module_find(r)
  \/ \E r \in BagToSet(runs) : run_module_install(r, TRUE)
  \/ \E l \in Locs : ExitsOnce(l) /\ child_exit(l)
  \/ \E l \in Locs, msg \in RegistrationMessages :
       child_message(l, msg, "later")

SpecRegistrations == Init /\ [][NextRegistrations]_vars

(***************************************************************************)
(* remove on modules that run: the modules of a session are run, exit      *)
(* once, and are removed.                                                  *)
(***************************************************************************)
RemovedPaths == {"local:/a", "github:o/n#v1.0.0"}

NextRemove ==
  \/ \E path \in RemovedPaths : FirstRun(path) /\ run_module(path)
  \/ \E r \in BagToSet(runs) : run_module_find(r)
  \/ \E r \in BagToSet(runs) : run_module_install(r, TRUE)
  \/ \E l \in Locs : ExitsOnce(l) /\ child_exit(l)
  \/ \E path \in RemovedPaths : remove(path)
  \/ \E r \in BagToSet(adds) : remove_find(r)
  \/ \E r \in BagToSet(adds) : remove_removed(r)
  \/ \E r \in BagToSet(adds) : remove_fs(r)
  \/ \E c \in BagToSet(calls) : kill_module_find(c)

SpecRemove == InitRegistry /\ [][NextRemove]_vars

(***************************************************************************)
(* Consistency of the representation: a handle held by my.running_modules  *)
(* carries the listeners of run_module, a handle held by                   *)
(* my.shutdown_modules is live and carries the listener of kill_module,    *)
(* and a kill() in flight has calls of kill_module in flight.              *)
(***************************************************************************)
Consistent ==
  /\ \A i \in DOMAIN running_modules :
       LET e == running_modules[i] IN
       /\ e.process.alive =>
            e.process.exit = "restart" /\ e.process.name = e.name
       /\ ~e.process.alive => e.process = NoProcess
       /\ \A j \in DOMAIN running_modules :
            running_modules[j].name = e.name => i = j
  /\ \A n \in DOMAIN shutdown_modules :
       LET p == shutdown_modules[n].process IN
       p.alive /\ p.exit = "kill" /\ p.name = n /\ p.cb.mid # NoMid
  /\ \A p \in BagToSet(strays) : p.alive
  /\ \A k \in KillIds :
       kills[k].active <=> HasChildren(k, calls, shutdown_modules, strays)
  /\ LiveCount <= MaxProcs

(***************************************************************************)
(* Properties.                                                             *)
(***************************************************************************)
Range(q) == {q[i] : i \in DOMAIN q}

\* C1: when the callback of a kill_module call is invoked without error,
\* the module's name is a key of neither my.running_modules nor
\* my.shutdown_modules.
C1_KillModuleLeavesNoEntry ==
  \A c \in done :
    (c.kind = "kill_module" /\ c.err = "") =>
      /\ ~Has(running_modules, c.name)
      /\ c.name \notin DOMAIN shutdown_modules

\* C2: the continuation of a core_call is invoked at most once, and once a
\* reply addressed to core has found the pending entry of its oid, that
\* entry is absent from my.core_module.rpc_calls.
C2_ContinuationAtMostOnce ==
  /\ \A c \in DOMAIN fired : fired[c] <= 1
  /\ \A x \in handled : x.oid \notin DOMAIN rpc_calls

\* C3: the dispatch of a reply addressed to core whose oid has a pending
\* entry invokes the stored continuation (once), removes the entry and
\* raises no error.
C3_ContinuationFires ==
  \A i \in DOMAIN dispatched :
    LET m == dispatched[i] IN
    (m.typ = "rpc_reply" /\ m.dst = core_name) =>
      \A x \in handled :
        x.oid = m.oid =>
          /\ thrown = ""
          /\ x.call \in DOMAIN fired /\ fired[x.call] = 1
          /\ m.oid \notin DOMAIN rpc_calls

\* C4: an event dispatched with hdr.src = X is never sent to the process of
\* X, whatever registrations X holds.
C4_NoSelfDelivery ==
  \A i \in DOMAIN sent :
    sent[i].msg.typ = "event" => sent[i].to # sent[i].msg.src

\* the registrations of entry e whose patterns match event m
Matching(e, m) ==
  Cardinality({j \in DOMAIN e.registrations :
                 /\ Matches(e.registrations[j].source, m.src)
                 /\ Matches(e.registrations[j].type, m.etyp)})

\* the times m was sent to the process of `name` in the last step
Sends(name, m) ==
  Cardinality({i \in DOMAIN sent : sent[i].to = name /\ sent[i].msg = m})

\* C4 (the case): a module that holds a registration matching its own
\* event emitted it, and the event went to another module
C4_Witness ==
  \E i \in DOMAIN dispatched :
    LET m == dispatched[i] IN
    /\ m.typ = "event"
    /\ Has(running_modules, m.src)
    /\ Matching(Get(running_modules, m.src), m) > 0
    /\ \E k \in DOMAIN sent : sent[k].msg = m /\ sent[k].to # m.src

\* C5: an event accepted by dispatch is sent to each running module other
\* than its source as many times as the module has registrations whose
\* patterns match it, and to no module outside my.running_modules.
C5_SendsEqualMatches ==
  \A i \in DOMAIN dispatched :
    LET m == dispatched[i] IN
    m.typ = "event" =>
      /\ \A j \in DOMAIN running_modules :
           LET e == running_modules[j] IN
           e.name # m.src => Sends(e.name, m) = Matching(e, m)
      /\ \A k \in DOMAIN sent : Has(running_modules, sent[k].to)

\* C6: the restart counter of every entry is in 0..3; the 'exit' listener
\* of run_module, finding the counter below 3, increments it and calls
\* run_module again, and finding it at 3 deletes the entry; list() marks
\* running: true exactly the records whose name is in my.running_modules.
C6_RestartBudget ==
  /\ \A i \in DOMAIN running_modules : running_modules[i].restart \in 0..3
  /\ \A x \in exited :
       (x.listener = "restart" /\ x.restart # NoEntry) =>
         IF x.restart < 3
         THEN /\ Has(running_modules, x.name)
              /\ Get(running_modules, x.name).restart = x.restart + 1
              /\ \E r \in BagToSet(runs) :
                   /\ r.internal /\ r.stage = "find"
                   /\ r.arg = Get(running_modules, x.name).path
         ELSE ~Has(running_modules, x.name)
  /\ \A rec \in listed : rec.running <=> Has(running_modules, rec.name)

\* C6 (the case): a child exited with the counter at 3, and the entry is
\* gone
C6_Witness ==
  \E x \in exited :
    /\ x.listener = "restart" /\ x.restart = 3
    /\ ~Has(running_modules, x.name)

\* C7: a child that a kill_module call is waiting for has been
\* force-terminated once the call's 5 s timer has fired, and keeps, until
\* it exits, the 'exit' listener that completes the call.
C7_ForceKillAndComplete ==
  /\ \A l \in Locs :
       l.proc.cb.mid # NoMid =>
         \/ [name |-> l.proc.name, mid |-> l.proc.cb.mid] \in timers
         \/ l.proc.signalled
  /\ \A l \in Locs : l.proc.exit # "none"

\* no entry of `name` is left and no child of it is alive
Stopped(name) ==
  /\ ~Has(running_modules, name)
  /\ name \notin DOMAIN shutdown_modules
  /\ \A l \in Locs : l.proc.name # name

\* C8: kill() does not complete before every module that was in
\* my.running_modules when it was called has been stopped: its child has
\* exited and its name is in neither my.running_modules nor
\* my.shutdown_modules.
C8_KillAwaitsAll ==
  \A c \in done : c.kind = "kill" => \A n \in c.targets : Stopped(n)

\* C9: an rpc_call to core naming an exposed procedure yields one
\* rpc_reply with hdr.src = core, dst = the caller, oid = the call's mid
\* and the message id allocated for it; a reply queued for dispatch carries
\* res or err; when it is dispatched it is sent to the caller's process if
\* the caller's entry holds one, and dropped otherwise.
C9_CoreReply ==
  /\ \A i \in DOMAIN dispatched :
       LET m == dispatched[i] IN
       (m.typ = "rpc_call" /\ m.dst = core_name /\ m.prc \in procedures) =>
         LET queued == {j \in DOMAIN ticks : ticks[j].mid = message_id}
             kept == {r \in handlers : r.mid = message_id}
         IN /\ Cardinality(queued) + Cardinality(kept) = 1
            /\ \A r \in {ticks[j] : j \in queued} \cup kept :
                 /\ r.typ = "rpc_reply" /\ r.src = core_name
                 /\ r.dst = m.src /\ r.oid = m.mid /\ r.prc = m.prc
  /\ \A j \in DOMAIN ticks :
       /\ ticks[j].typ = "rpc_reply" /\ ticks[j].src = core_name
       /\ \/ ticks[j].res = Result /\ ticks[j].err = NoErr
          \/ ticks[j].res = NoRes /\ ticks[j].err \in {HandlerErr, NotFoundErr}
       /\ \A k \in DOMAIN ticks : ticks[k].mid = ticks[j].mid => k = j
       /\ \A r \in handlers : r.mid # ticks[j].mid
  /\ \A i \in DOMAIN dispatched :
       LET m == dispatched[i] IN
       (m.typ = "rpc_reply" /\ m.src = core_name /\ m.dst # core_name) =>
         /\ thrown = ""
         /\ IF Has(running_modules, m.dst)
               /\ Get(running_modules, m.dst).process.alive
            THEN sent = <<[to |-> m.dst, msg |-> m]>>
            ELSE sent = <<>>

\* C9 (the case): the reply to a module's call of an exposed procedure was
\* dispatched and sent to the module's process
C9_Witness ==
  \E i \in DOMAIN dispatched :
    LET m == dispatched[i] IN
    /\ m.typ = "rpc_reply" /\ m.src = core_name /\ m.prc \in procedures
    /\ m.res = Result /\ m.oid \in 1..MaxChildMid
    /\ sent = <<[to |-> m.dst, msg |-> m]>>

\* C10: the step that dispatches an rpc_call addressed to core does not
\* dispatch its reply: the reply waits in the nextTick queue or with the
\* handler.
C10_ReplyDeferred ==
  \A i \in DOMAIN dispatched :
    LET m == dispatched[i] IN
    (m.typ = "rpc_call" /\ m.dst = core_name) =>
      /\ \A j \in DOMAIN dispatched :
           ~(/\ dispatched[j].typ = "rpc_reply"
             /\ dispatched[j].src = core_name
             /\ dispatched[j].oid = m.mid
             /\ dispatched[j].dst = m.src)
      /\ \E r \in Range(ticks) \cup handlers :
           r.oid = m.mid /\ r.dst = m.src /\ r.mid = message_id

\* C10 (the case): core_call called an exposed procedure of core whose
\* handler called back before returning; the reply is queued
C10_Witness ==
  \E i \in DOMAIN dispatched :
    LET m == dispatched[i] IN
    /\ m.typ = "rpc_call" /\ m.dst = core_name /\ m.src = core_name
    /\ \E j \in DOMAIN ticks :
         /\ ticks[j].oid = m.mid /\ ticks[j].res = Result
         /\ ticks[j].mid = message_id

Refused(msg) ==
  \/ msg.typ = NotAString
  \/ msg.mid = NotANumber
  \/ msg.src = NotAString
  \/ msg.src # core_name /\ ~Has(running_modules, msg.src)

\* the step sent nothing, raised nothing and left the registrations, the
\* procedures, the pending calls and the core message id as they were
Dropped ==
  /\ sent' = <<>> /\ thrown' = "" /\ dispatched' = <<>>
  /\ UNCHANGED <<running_modules, procedures, rpc_calls, message_id,
                 handlers, ticks>>

\* a step that hands a refused message to dispatch drops it
C12_Step == (offered' # <<>> /\ Refused(Head(offered'))) => Dropped

\* C12: a message handed to dispatch that lacks a string hdr.typ, a numeric
\* hdr.mid or a string hdr.src, or whose hdr.src is neither core nor a key
\* of my.running_modules, is dropped: nothing is sent and registrations,
\* procedures, pending rpc_calls and the core message id stay as they were.
C12_ValidationGate == [][C12_Step]_vars

\* C12 (the case): the child of a module that kill_module moved to
\* my.shutdown_modules sent a message; it reached dispatch under the
\* module's name and nothing was sent
C12_Witness ==
  /\ offered # <<>>
  /\ Head(offered).typ # NotAString /\ Head(offered).mid # NotANumber
  /\ Head(offered).src \in DOMAIN shutdown_modules
  /\ ~Has(running_modules, Head(offered).src)
  /\ dispatched = <<>> /\ sent = <<>>

(***************************************************************************)
(* C13, C14: the 'message' listener of run_module.                         *)
(***************************************************************************)
IsReady(msg) == msg.typ = "event" /\ msg.etyp = "internal:ready"

\* the registrations of the running modules other than `name`
OthersRegistrations(rm, name) ==
  {[name |-> rm[i].name, registrations |-> rm[i].registrations] :
     i \in {j \in DOMAIN rm : rm[j].name # name}}

\* C13: whatever hdr.src the child of a module wrote, every message that
\* its 'message' listener hands to dispatch carries the module's name as
\* hdr.src, the registrations of the other modules are left as they were,
\* and every message sent on in that step carries the module's name
C13_Step ==
  (heard' # <<>> /\ ~IsReady(heard'[1].msg)) =>
    LET name == heard'[1].name IN
    /\ \A i \in DOMAIN offered' : offered'[i].src = name
    /\ OthersRegistrations(running_modules', name)
         = OthersRegistrations(running_modules, name)
    /\ \A i \in DOMAIN sent' : sent'[i].msg.src = name

C13_IdentityRewriting == [][C13_Step]_vars

\* C13 (the case): the child of a running module wrote the name of another
\* running module into a register; the message passed the gate under the
\* name of the child's own module
C13_Witness ==
  /\ heard # <<>>
  /\ heard[1].msg.typ = "register"
  /\ heard[1].msg.src # heard[1].name
  /\ Has(running_modules, heard[1].msg.src)
  /\ dispatched # <<>> /\ dispatched[1].src = heard[1].name
  /\ Get(running_modules, heard[1].name).registrations # <<>>

\* C14: an internal:ready event from the child of a module that is in
\* my.running_modules makes the supervisor send exactly one rpc_call to
\* that module, from core, for `init`, under a fresh core message id
C14_Step ==
  (heard' # <<>> /\ IsReady(heard'[1].msg)
     /\ Has(running_modules, heard'[1].name)) =>
    /\ thrown' = ""
    /\ message_id' = message_id + 1
    /\ sent' = <<[to |-> heard'[1].name,
                 msg |-> RpcCall(message_id', core_name, heard'[1].name,
                                 "init")]>>

C14_ReadyHandshake == [][C14_Step]_vars

\* C14 (the case): the child that run_module forked signalled ready and
\* was sent the call of `init`
C14_Witness ==
  /\ heard # <<>> /\ IsReady(heard[1].msg)
  /\ sent # <<>> /\ sent[1].to = heard[1].name
  /\ sent[1].msg.prc = "init" /\ sent[1].msg.src = core_name

(***************************************************************************)
(* C15 .. C18: the registry.                                               *)
(***************************************************************************)
\* the add calls that waited at `stage` and were answered in this step
Answered(stage) ==
  {a \in BagToSet(adds) :
     /\ a.op = "add" /\ a.stage = stage
     /\ CopiesIn(a, adds') < CopiesIn(a, adds)}

\* record m has the path `path`, or is of the same repository
InTheWay(m, path) ==
  \/ m.path = path
  \/ /\ expand_path(m.path).type = "github"
     /\ expand_path(path).type = "github"
     /\ expand_path(m.path).owner = expand_path(path).owner
     /\ expand_path(m.path).name = expand_path(path).name

\* C15: when the conflict check of add finds a record with the augmented
\* path, or a record of the same owner and name of the remote, add calls
\* back with module_conflict and my.db is left as it was
C15_Step ==
  \A a \in Answered("find") :
    (\E m \in db : InTheWay(m, a.path)) =>
      /\ thrown' = ""
      /\ \E c \in done' :
           c.kind = "add" /\ c.arg = a.arg /\ c.err = "module_conflict"
      /\ db' = db

C15_PathConflict == [][C15_Step]_vars

\* C15 (the case): add of a tag of a repository was refused because the
\* session holds another tag of it
C15_Witness ==
  /\ RemoteRecord \in db
  /\ \E c \in done :
       /\ c.kind = "add" /\ c.err = "module_conflict"
       /\ c.arg = "github:o/n#master"

\* C16: when the name check of add finds a record of the same name under
\* another path, add calls back with module_conflict, nothing is thrown
\* and my.db is left as it was
C16_Step ==
  \A a \in Answered("name") :
    (\E m \in db : m.name = a.module.name /\ m.path # a.path) =>
      /\ thrown' = ""
      /\ \E c \in done' :
           c.kind = "add" /\ c.arg = a.arg /\ c.err = "module_conflict"
      /\ db' = db

C16_NameConflict == [][C16_Step]_vars

\* C16 (the case): the name check met a record of the same name
C16_Witness ==
  \E a \in BagToSet(adds) :
    /\ a.op = "add" /\ a.stage = "name"
    /\ \E m \in db : m.name = a.module.name /\ m.path # a.path

\* C17: no two records of my.db share a path, and no two share a name
C17_UniqueNames ==
  \A m1, m2 \in db : m1 # m2 => m1.path # m2.path /\ m1.name # m2.name

\* C17 (the case): two adds of different paths were in flight together
C17_Witness ==
  \E a, b \in BagToSet(adds) :
    a.op = "add" /\ b.op = "add" /\ a.path # b.path /\ a.stage = "update"

\* the path under which add stores what `path` names
Canonical(path) ==
  LET p == expand_path(path)
  IN IF p.type = "local" THEN "local:" \o p.path
     ELSE "github:" \o p.owner \o "/" \o p.name \o "#"
            \o (IF p.tag = NoTag THEN "v1.2.0" ELSE p.tag)

\* `path` resolves and the package.json it leads to is valid
Addable(path) ==
  LET p == expand_path(path)
  IN \/ p.type = "github"
     \/ /\ p.type = "local" /\ p.path \in Directories
        /\ semver_clean(package_json(p.path).version) # NoVersion

\* C18: an add of a path that resolves, with a valid package.json and no
\* record in its way, completes without error and leaves exactly one record
\* of the canonical path, with the name and the cleaned version of the
\* package.json, which list gives; a remove that completes while no other
\* call is in flight leaves no record of the canonical path
C18_Step ==
  /\ \A a \in Answered("find") \cup Answered("name") :
       (/\ Addable(a.path)
        /\ \A m \in db : ~InTheWay(m, a.path)
        /\ \A m \in db : a.stage = "name" => m.name # a.module.name)
         => thrown' = ""
  /\ \A c \in done' :
       (c.kind = "add" /\ c.err = "") =>
         /\ Cardinality({m \in db' : m.path = Canonical(c.arg)}) = 1
         /\ \A m \in db' :
              m.path = Canonical(c.arg) =>
                LET json == package_json(expand_path(c.arg).path)
                IN m.name = json.name
                   /\ m.version = semver_clean(json.version)
  /\ \A c \in done' :
       (c.kind = "remove" /\ adds' = EmptyBag) =>
         \A m \in db' : m.path # Canonical(c.arg)
  /\ listed' # {} =>
       {[path |-> r.path, name |-> r.name, version |-> r.version] :
          r \in listed'}
       = {[path |-> m.path, name |-> m.name, version |-> m.version] :
            m \in db'}

C18_RoundTrip == [][C18_Step]_vars

\* C18 (the case): add of a local path that is not canonical stored the
\* record of the canonical path
C18_Witness ==
  /\ \E c \in done : c.kind = "add" /\ c.err = "" /\ c.arg = "local:/x/../c"
  /\ \E m \in db : m.path = "local:/c" /\ m.version = "1.2.3"

(***************************************************************************)
(* C19: augment_path.                                                      *)
(***************************************************************************)
\* C19: for a github path and the listing that repo.tags gave: a tag
\* written in the path and listed is kept; else `master` written in the
\* path is kept; else any other tag written in the path is an invalid_path
\* error; else, no tag being written, the listed tag of the greatest
\* version is chosen; else, no listed tag being a version, `master`
C19_TagResolution ==
  \A i \in DOMAIN augmented :
    LET x == augmented[i]
        p == expand_path(x.arg)
        q == expand_path(x.path)
        inlist == \E j \in DOMAIN x.data : x.data[j] = p.tag
        valid == {t \in Range(x.data) : semver_clean(t) # NoVersion}
    IN (p.type = "github" /\ x.err # "ENOTFOUND") =>
         /\ x.err = "" => q.owner = p.owner /\ q.name = p.name
         /\ (p.tag # NoTag /\ inlist) => x.err = "" /\ q.tag = p.tag
         /\ (p.tag = "master" /\ ~inlist) => x.err = "" /\ q.tag = "master"
         /\ (p.tag \notin {NoTag, "master"} /\ ~inlist) =>
              x.err = "invalid_path"
         /\ (p.tag = NoTag /\ valid # {}) =>
              /\ x.err = "" /\ q.tag \in valid
              /\ \A t \in valid :
                   ~semver_gt(semver_clean(t), semver_clean(q.tag))
         /\ (p.tag = NoTag /\ valid = {}) => x.err = "" /\ q.tag = "master"

\* C19 (the case): no tag was written, the listing held two versions, the
\* lesser first, and the greater was chosen
C19_Witness ==
  /\ augmented # <<>>
  /\ augmented[1].arg = "github:o/n"
  /\ augmented[1].data = <<"v1.0.0", "v1.2.0">>
  /\ augmented[1].path = "github:o/n#v1.2.0"

(***************************************************************************)
(* C20: register with a malformed pattern.                                 *)
(***************************************************************************)
Malformed(msg) ==
  \/ msg.esrc \in {NotAString, BadPattern}
  \/ msg.etyp \in {NotAString, BadPattern}

\* C20: a register message of a running module whose source or type
\* pattern is not a string, or does not compile, adds no registration to
\* any module and raises nothing
C20_Step ==
  (/\ dispatched' # <<>>
   /\ dispatched'[1].typ = "register"
   /\ Malformed(dispatched'[1])) =>
    /\ thrown' = ""
    /\ running_modules' = running_modules

C20_MalformedRegister == [][C20_Step]_vars

\* C20 (the case): a register whose patterns are not strings went through
\* the gate and left no registration
C20_Witness ==
  /\ dispatched # <<>>
  /\ dispatched[1].typ = "register"
  /\ dispatched[1].esrc = NotAString
  /\ thrown = ""
  /\ \A i \in DOMAIN running_modules : running_modules[i].registrations = <<>>

(***************************************************************************)
(* C21: core_call.                                                         *)
(***************************************************************************)
\* the rpc_call that core_call dispatched in this step, if any
CoreCalled ==
  /\ heard' = <<>>
  /\ dispatched' # <<>>
  /\ dispatched'[1].typ = "rpc_call"
  /\ dispatched'[1].src = core_name
  /\ dispatched'[1].prc \in CalledProcedures

\* C21: after core_call the continuation is held by my.core_module.rpc_calls
\* under the hdr.mid of the rpc_call that was dispatched, and under no
\* other new key
C21_Step ==
  CoreCalled =>
    DOMAIN rpc_calls' = DOMAIN rpc_calls \cup {dispatched'[1].mid}

C21_StoredUnderCallId == [][C21_Step]_vars

\* C21 (the case): core_call to a running module stored its continuation
\* under the id of the call it sent
C21_Witness ==
  /\ sent # <<>>
  /\ sent[1].msg.typ = "rpc_call" /\ sent[1].msg.src = core_name
  /\ sent[1].msg.prc \in CalledProcedures
  /\ sent[1].msg.mid \in DOMAIN rpc_calls

(***************************************************************************)
(* C22, C23: the registrations.                                            *)
(***************************************************************************)
\* seq without its elements of registration_id rid, in their order
RECURSIVE Without(_, _)
Without(seq, rid) ==
  IF seq = <<>> THEN <<>>
  ELSE (IF Head(seq).registration_id = rid THEN <<>> ELSE <<Head(seq)>>)
         \o Without(Tail(seq), rid)

\* C22: an unregister of a running module with a numeric rid leaves the
\* module its registrations of another registration_id, in their order,
\* and leaves the registrations of every other module as they were
C22_Step ==
  (/\ dispatched' # <<>>
   /\ dispatched'[1].typ = "unregister"
   /\ dispatched'[1].rid # NotANumber
   /\ Has(running_modules, dispatched'[1].src)) =>
    LET msg == dispatched'[1] IN
    /\ thrown' = ""
    /\ Has(running_modules', msg.src)
    /\ Get(running_modules', msg.src).registrations
         = Without(Get(running_modules, msg.src).registrations, msg.rid)
    /\ OthersRegistrations(running_modules', msg.src)
         = OthersRegistrations(running_modules, msg.src)

C23_DistinctIds ==
  \A i \in DOMAIN running_modules :
    \A j, k \in DOMAIN running_modules[i].registrations :
      j # k => running_modules[i].registrations[j].registration_id
                 # running_modules[i].registrations[k].registration_id

\* C23 (the case): a module whose child was restarted holds two
\* registrations
C23_Witness ==
  \E i \in DOMAIN running_modules :
    /\ running_modules[i].restart > 0
    /\ running_modules[i].process.alive
    /\ Len(running_modules[i].registrations) = 2

(***************************************************************************)
(* C24..C29: the children, the entries and the handles they hold.          *)
(***************************************************************************)
\* the timers that fire in the step
Firing == timers \ timers'

\* the children in my.shutdown_modules that the step force-terminates
Terminated ==
  {n \in DOMAIN shutdown_modules \cap DOMAIN shutdown_modules' :
     /\ ~shutdown_modules[n].process.signalled
     /\ shutdown_modules'[n].process.signalled}

\* C24: the timer armed by a kill_module call force-terminates no process
\* but the one that call moved to my.shutdown_modules
C24_Step ==
  \A n \in Terminated :
    \E t \in Firing :
      /\ t.name = n
      /\ t.mid = shutdown_modules[n].process.cb.mid

C24_TimerOwnProcess == [][C24_Step]_vars

\* C24 (the case): the timer of an earlier kill_module call is armed when
\* the child of a later call on the same module waits in
\* my.shutdown_modules
C24_Witness ==
  \E t \in timers :
    /\ t.name \in DOMAIN shutdown_modules
    /\ shutdown_modules[t.name].process.cb.mid > t.mid

\* the Kill task of a kill_module call runs in the step and finds the
\* module `name` in my.running_modules
Kills(name) ==
  \E c \in BagToSet(calls) :
    /\ calls' = calls (-) One(c)
    /\ \E r \in db : r.path = c.arg /\ r.name = name
    /\ Has(running_modules, name)

\* what spawns a child for `name` without a call of the host: the 'exit'
\* listener of run_module on a live child of it, or a run_module that
\* such a listener made and that has not forked yet
Restarts(name) ==
  \/ \E l \in Locs : l.proc.name = name /\ l.proc.exit = "restart"
  \/ \E r \in db, run \in BagToSet(runs) :
       r.name = name /\ run.arg = r.path /\ run.internal

\* C25: once kill_module has acted on a module of my.running_modules,
\* nothing is left that spawns a child for it without a run_module call of
\* the host
C25_Step == \A r \in db : Kills(r.name) => ~Restarts(r.name)'

C25_NoRestartAfterKill == [][C25_Step]_vars

\* C25 (the case): the Kill task of kill_module runs while the run_module
\* of an 'exit' listener is pending for the module
C25_Witness ==
  /\ thrown = "TypeError"
  /\ dispatched # <<>>
  /\ dispatched[1].typ = "rpc_call" /\ dispatched[1].prc = "kill"
  /\ \E i \in DOMAIN running_modules, run \in BagToSet(runs) :
       /\ ~running_modules[i].process.alive
       /\ run.internal /\ run.arg = running_modules[i].path

\* the completions of the remove calls that found their module in
\* my.running_modules: the callback of remove is the callback of the
\* kill_module(module.name, cb_) it made
RemovedRunning ==
  {c \in done :
     /\ c.kind = "kill_module" /\ c.parent = NoKill
     /\ \E r \in Records \cup {RemoteRecord} : r.name = c.arg}

\* C26: remove on a module that is running completes without error, and
\* the module is then out of my.running_modules
C26_RemoveStops ==
  \A c \in RemovedRunning : c.err = "" /\ ~Has(running_modules, c.arg)

\* C26 (the case): a remove that found its module running has completed
C26_Witness ==
  \E c \in RemovedRunning :
    /\ \A r \in db : r.name # c.arg
    /\ \E l \in Locs : l.proc.name = c.arg

\* C27: the dispatch of an event or of an rpc_call, the kill call of
\* kill_module included, dereferences no handle that an 'exit' listener
\* deleted
C27_LiveHandle ==
  \A i \in DOMAIN dispatched :
    dispatched[i].typ \in {"event", "rpc_call"} => thrown # "TypeError"

\* C27 (the case): a call was dispatched to a module whose entry is in
\* my.running_modules without a handle, its restart pending
C27_Witness ==
  /\ dispatched # <<>>
  /\ dispatched[1].typ = "rpc_call"
  /\ Has(running_modules, dispatched[1].dst)
  /\ ~Get(running_modules, dispatched[1].dst).process.alive
  /\ Get(running_modules, dispatched[1].dst).restart > 0

\* the live children that run_module forked for `name` and that no
\* kill_module call has taken over
ChildrenOf(name) ==
  {l \in Locs :
     l.proc.name = name /\ l.at # "shutdown" /\ l.proc.exit = "restart"}

\* C28: a module of my.running_modules has at most one live child, and
\* that child is the one its entry holds the handle of
C28_OneChild ==
  \A name \in Keys(running_modules) :
    /\ Cardinality(ChildrenOf(name)) <= 1
    /\ \A l \in ChildrenOf(name) : l.at = "running"

\* C28 (the case): run_module has forked a child for a module that was
\* running, and the child it had is alive
C28_Witness ==
  \E l \in Locs :
    /\ l.at = "stray" /\ l.proc.exit = "restart"
    /\ Has(running_modules, l.proc.name)
    /\ Get(running_modules, l.proc.name).process.alive

\* C29: no name is a key of my.running_modules and of my.shutdown_modules
C29_Disjoint == Keys(running_modules) \cap DOMAIN shutdown_modules = {}

\* C29 (the case): a module was run again while the child of its earlier
\* run waits in my.shutdown_modules for its exit
C29_Witness ==
  \E name \in DOMAIN shutdown_modules :
    /\ Has(running_modules, name)
    /\ Get(running_modules, name).process.alive
    /\ shutdown_modules[name].process.alive
    /\ ~shutdown_modules[name].process.signalled

====
